---- MODULE Spec2Model ----
(***************************************************************************)
(* Queue state controller of the vehicle queue application (src/src/App.jsx)*)
(* together with the remote store it talks to (tables "fila" and            *)
(* "historico").  Every browser tab running the component is a client; the  *)
(* clients share the remote tables and nothing else.                        *)
(*                                                                          *)
(* An async handler is cut at its awaits: the synchronous part up to the    *)
(* await is one action (it leaves a request outstanding), the remote store  *)
(* serving the request is one action (it leaves a response in flight), and  *)
(* the continuation after the await is one action.                          *)
(***************************************************************************)
EXTENDS Integers, Sequences, FiniteSets, TLC

\* Total number of rows the remote table "fila" accepts before every further
\* insert is answered with an error.
MaxRows == 3

\* Largest number of rows earlier sessions have left in the remote table
\* "fila" when the tabs open.
InitRows == 3

\* The browser tabs that can run the component, and the ones Spec opens.
Clients == {"c1", "c2"}
Tabs == {"c1"}

\* The columns the form fills (initialForm).
Fields == {"placa_cavalo", "placa_carreta", "motorista", "origem", "destino",
           "tipo", "prioridade", "observacoes"}

\* The inputs the modelled users type into, and what they type.
TypedFields == {"placa_cavalo"}
TypedValues == {"", "ABC1D23"}

\* JavaScript null: a value that is no array and no timestamp.
Null == [i \in {0} |-> 0]
NULL == 0

\* The error member of a remote answer: null, or an error object (its message).
NoError == "null"
RemoteError == "network error"

initialForm == [f \in Fields |-> ""]

VARIABLES
    form,           \* form[c]: the draft, field name -> string
    fila,           \* fila[c]: the local queue, a sequence of rows
    loading,        \* loading[c]: the busy flag
    fetchOp,        \* fetchOp[c]: the activation of fetchQueue
    submitOp,       \* submitOp[c]: the activation of handleSubmit
    callOp,         \* callOp[c]: the activation of handleCallNext
    tblFila,        \* remote table "fila": a set of rows
    tblHistorico,   \* remote table "historico": rows in insertion order
    clock,          \* the time (Date / the store's now())
    log,            \* log[c]: what tab c has asked of the store so far
    ev              \* the last event: [client, kind, info]

vars == <<form, fila, loading, fetchOp, submitOp, callOp, tblFila,
          tblHistorico, clock, log, ev>>

\* Everything but the event marker.
state == <<form, fila, loading, fetchOp, submitOp, callOp, tblFila,
           tblHistorico, clock, log>>

----------------------------------------------------------------------------
\* Activation records.  An activation at rest holds the same record always.

FetchInit == [pc |-> "init", calls |-> <<>>, resp |-> [data |-> Null, error |-> NoError]]
FetchDone == [FetchInit EXCEPT !.pc = "done"]

SubmitIdle == [pc |-> "idle", calls |-> <<>>, req |-> Null,
               resp |-> [data |-> Null, error |-> NoError]]

CallIdle == [pc |-> "idle", calls |-> <<>>, fila |-> <<>>, next |-> Null, now |-> NULL,
             updReq |-> Null, histReq |-> Null,
             updateError |-> NoError, historicoError |-> NoError]

\* The record of a tab's remote calls: whether one of them was answered with
\* an error, the identifiers its advances sent in an update, and those they
\* sent in a history insert, in the order they were issued.
LogInit == [failed |-> FALSE, updates |-> <<>>, inserts |-> <<>>]

\* An event, and the end of a handler with the errors it was answered with.
Event(c, k) == [client |-> c, kind |-> k, info |-> <<>>]
Outcome(c, k, errors) == [client |-> c, kind |-> k, info |-> errors]

----------------------------------------------------------------------------
\* The remote store.

\* .eq('status', s)
EqStatus(T, s) == {r \in T : r.status = s}

\* .order('chegada_at', { ascending: true })
RECURSIVE OrderByChegada_Desc(_)
OrderByChegada_Desc(S) ==
    IF S = {} THEN <<>>
    ELSE LET m == CHOOSE r \in S : \A q \in S : r.chegada_at >= q.chegada_at
         IN  <<m>> \o OrderByChegada_Desc(S \ {m})

RECURSIVE OrderByChegada(_)
OrderByChegada(S) ==
    IF S = {} THEN <<>>
    ELSE LET m == CHOOSE r \in S : \A q \in S : r.chegada_at <= q.chegada_at
         IN  <<m>> \o OrderByChegada(S \ {m})

\* from('fila').select('*').eq('status', 'Na fila').order('chegada_at', asc)
SelectQueue(T) == OrderByChegada(EqStatus(T, "Na fila"))

\* The row the store makes of an insert payload: it assigns the identifier
\* and the arrival timestamp; the called timestamp stays null.
NewRow(payload, id, at) ==
    [id |-> id, chegada_at |-> at, chamado_at |-> NULL] @@ payload

\* .update(set).eq('id', id)
UpdateById(T, id, set) ==
    {IF r.id = id THEN set @@ r ELSE r : r \in T}

----------------------------------------------------------------------------
\* JavaScript helpers.

\* JavaScript undefined: what indexing past the end of an array gives.
Undefined == [i \in {0} |-> 1]

\* data || []
OrEmpty(data) == IF data = Null THEN <<>> ELSE data

\* data[0]
Index0(arr) == IF Len(arr) > 0 THEN arr[1] ELSE Undefined

\* prev.slice(1)
Slice1(arr) == IF Len(arr) > 0 THEN Tail(arr) ELSE <<>>

\* The component has rendered and its mount effect has run.  The effect runs
\* right after the first render, when the draft is still empty and the queue
\* is empty, so no input reaches a handler before it.
Mounted(c) == fetchOp[c].pc # "init"

\* fila.map((item) => <li key={item.id}> ...): rendering throws on an element
\* that is undefined, and React then unmounts the component.
Renders(c) == \A i \in 1..Len(fila[c]) : fila[c][i] # Undefined

\* The inputs and buttons of tab c are on the page.
Interactive(c) == Mounted(c) /\ Renders(c)

\* log, once tab c's call has been answered with error.
Answered(c, error) == [log EXCEPT ![c].failed = @ \/ error # NoError]

----------------------------------------------------------------------------
\* fetchQueue: the mount effect.

\* if (!error) setFila(data || []); else console.error(...)
FilaAfterFetch_Unchecked(prev, resp) == resp.data
FilaAfterFetch(prev, resp) ==
    IF resp.error = NoError THEN OrEmpty(resp.data) ELSE prev

\* useEffect(() => { ... fetchQueue(); }, []): setLoading(true), then the
\* select is issued.
Mount(c) ==
    /\ fetchOp[c].pc = "init"
    /\ loading' = [loading EXCEPT ![c] = TRUE]
    /\ fetchOp' = [fetchOp EXCEPT ![c] =
                     [@ EXCEPT !.pc = "req", !.calls = <<"select fila">>]]
    /\ ev' = Event(c, "mount")
    /\ UNCHANGED <<form, fila, submitOp, callOp, tblFila, tblHistorico, clock, log>>

\* The store answers the select: the rows, or an error.
ServeSelect(c) ==
    /\ fetchOp[c].pc = "req"
    /\ \E error \in {NoError, RemoteError} :
         /\ fetchOp' = [fetchOp EXCEPT ![c] =
               [@ EXCEPT !.pc = "resp",
                         !.resp = IF error = NoError
                                  THEN [data |-> SelectQueue(tblFila), error |-> NoError]
                                  ELSE [data |-> Null, error |-> error]]]
         /\ log' = Answered(c, error)
    /\ ev' = Event(c, "serve select")
    /\ UNCHANGED <<form, fila, loading, submitOp, callOp, tblFila, tblHistorico, clock>>

\* The continuation of fetchQueue after the await.
FetchResume(c) ==
    /\ fetchOp[c].pc = "resp"
    /\ fila' = [fila EXCEPT ![c] = FilaAfterFetch(@, fetchOp[c].resp)]
    /\ loading' = [loading EXCEPT ![c] = FALSE]
    /\ fetchOp' = [fetchOp EXCEPT ![c] = FetchDone]
    /\ ev' = Outcome(c, "fetch done", <<fetchOp[c].resp.error>>)
    /\ UNCHANGED <<form, submitOp, callOp, tblFila, tblHistorico, clock, log>>

----------------------------------------------------------------------------
\* handleChange(field): the user types into an input.

Change(c, field, value) ==
    /\ Interactive(c)
    /\ value # form[c][field]
    /\ form' = [form EXCEPT ![c][field] = value]
    /\ ev' = Event(c, "change")
    /\ UNCHANGED <<fila, loading, fetchOp, submitOp, callOp, tblFila,
                   tblHistorico, clock, log>>

----------------------------------------------------------------------------
\* handleSubmit, behind the form and its submit button.

\* <button type="submit" disabled={loading}>
SubmitEnabled_Always(c) == TRUE
SubmitEnabled(c) == ~loading[c]

\* <input required value={form.placa_cavalo}>: the browser submits no form
\* whose required input is empty.
FormValid_NotRequired(c) == TRUE
FormValid(c) == form[c]["placa_cavalo"] # ""

\* [{ ...form, status: 'Na fila' }]
InsertPayload(draft) == [status |-> "Na fila"] @@ draft

\* if (!error && data) setFila((prev) => [...prev, data[0]])
FilaAfterSubmit_Prepend(prev, resp) ==
    IF resp.error = NoError /\ resp.data # Null
    THEN <<Index0(resp.data)>> \o prev ELSE prev
FilaAfterSubmit(prev, resp) ==
    IF resp.error = NoError /\ resp.data # Null
    THEN Append(prev, Index0(resp.data)) ELSE prev

\* if (!error && data) setForm(initialForm)
FormAfterSubmit_AlwaysReset(prev, resp) == initialForm
FormAfterSubmit(prev, resp) ==
    IF resp.error = NoError /\ resp.data # Null THEN initialForm ELSE prev

\* setLoading(false), last statement of handleSubmit
LoadingAfterSubmit_StuckOnError(resp) == resp.error # NoError
LoadingAfterSubmit(resp) == FALSE

\* The user presses the submit button (or Enter in an input).
SubmitClick(c) ==
    /\ Interactive(c)
    /\ ev' = Event(c, "submit")
    /\ IF ~SubmitEnabled(c) \/ ~FormValid(c)
       THEN UNCHANGED state
       ELSE /\ submitOp[c].pc = "idle"
            /\ loading' = [loading EXCEPT ![c] = TRUE]
            /\ submitOp' = [submitOp EXCEPT ![c] =
                  [@ EXCEPT !.pc = "req", !.calls = <<"insert fila">>,
                            !.req = InsertPayload(form[c])]]
            /\ UNCHANGED <<form, fila, fetchOp, callOp, tblFila, tblHistorico,
                           clock, log>>

\* The store answers the insert: the inserted row, or an error.
ServeInsertFila(c) ==
    /\ submitOp[c].pc = "req"
    /\ \/ /\ Cardinality(tblFila) < MaxRows
          /\ LET row == NewRow(submitOp[c].req, Cardinality(tblFila) + 1, clock)
             IN  /\ tblFila' = tblFila \cup {row}
                 /\ submitOp' = [submitOp EXCEPT ![c] =
                       [@ EXCEPT !.pc = "resp",
                                 !.resp = [data |-> <<row>>, error |-> NoError]]]
          /\ clock' = clock + 1
          /\ log' = Answered(c, NoError)
       \/ /\ submitOp' = [submitOp EXCEPT ![c] =
                [@ EXCEPT !.pc = "resp",
                          !.resp = [data |-> Null, error |-> RemoteError]]]
          /\ log' = Answered(c, RemoteError)
          /\ UNCHANGED <<tblFila, clock>>
    /\ ev' = Event(c, "serve insert fila")
    /\ UNCHANGED <<form, fila, loading, fetchOp, callOp, tblHistorico>>

\* The continuation of handleSubmit after the await.
SubmitResume(c) ==
    /\ submitOp[c].pc = "resp"
    /\ fila' = [fila EXCEPT ![c] = FilaAfterSubmit(@, submitOp[c].resp)]
    /\ form' = [form EXCEPT ![c] = FormAfterSubmit(@, submitOp[c].resp)]
    /\ loading' = [loading EXCEPT ![c] = LoadingAfterSubmit(submitOp[c].resp)]
    /\ submitOp' = [submitOp EXCEPT ![c] = SubmitIdle]
    /\ ev' = Outcome(c, "submit done", <<submitOp[c].resp.error>>)
    /\ UNCHANGED <<fetchOp, callOp, tblFila, tblHistorico, clock, log>>

----------------------------------------------------------------------------
\* handleCallNext, behind the "Chamar proximo" button.

\* fila.length === 0
FilaVazia_Never(c) == FALSE
FilaVazia(c) == Len(fila[c]) = 0

\* <button onClick={handleCallNext} disabled={loading || fila.length === 0}>
CallNextEnabled(c) == ~(loading[c] \/ FilaVazia(c))

\* .update({ status: 'Chamado', chamado_at: now }).eq('id', next.id)
UpdateRequest(next, now) ==
    [id |-> next.id, set |-> [status |-> "Chamado", chamado_at |-> now]]

\* .insert([{ veiculo_id: next.id, acao: 'Chamado', at: now, payload: next }])
HistoricoPayload_Refreshed(next, now) ==
    [veiculo_id |-> next.id, acao |-> "Chamado", at |-> now,
     payload |-> [status |-> "Chamado", chamado_at |-> now] @@ next]
HistoricoPayload(next, now) ==
    [veiculo_id |-> next.id, acao |-> "Chamado", at |-> now, payload |-> next]

\* The second await is reached whatever the first returned.
InsertsHistorico_OnlyOnSuccess(updateError) == updateError = NoError
InsertsHistorico(updateError) == TRUE

\* setFila((prev) => prev.slice(1))
FilaAfterCallNext_Rollback(prev, updateError, historicoError) ==
    IF updateError = NoError /\ historicoError = NoError THEN Slice1(prev) ELSE prev
FilaAfterCallNext(prev, updateError, historicoError) == Slice1(prev)

\* The user presses the call-next button.
CallNextClick(c) ==
    /\ Interactive(c)
    /\ ev' = Event(c, "call next")
    /\ IF ~CallNextEnabled(c) \/ FilaVazia(c)
       THEN UNCHANGED state
       ELSE /\ callOp[c].pc = "idle"
            /\ loading' = [loading EXCEPT ![c] = TRUE]
            /\ IF Len(fila[c]) = 0
               THEN \* next is undefined: next.id throws after setLoading(true)
                    UNCHANGED <<callOp, log>>
               ELSE LET next == fila[c][1]
                        now  == clock
                    IN  /\ callOp' = [callOp EXCEPT ![c] =
                              [@ EXCEPT !.pc = "req_update",
                                        !.calls = <<"update fila">>,
                                        !.fila = fila[c], !.next = next, !.now = now,
                                        !.updReq = UpdateRequest(next, now)]]
                        /\ log' = [log EXCEPT ![c].updates = Append(@, next.id)]
            /\ UNCHANGED <<form, fila, fetchOp, submitOp, tblFila, tblHistorico, clock>>

\* The store answers the update.
ServeUpdate(c) ==
    /\ callOp[c].pc = "req_update"
    /\ \E error \in {NoError, RemoteError} :
         /\ tblFila' = IF error = NoError
                       THEN UpdateById(tblFila, callOp[c].updReq.id, callOp[c].updReq.set)
                       ELSE tblFila
         /\ callOp' = [callOp EXCEPT ![c] =
               [@ EXCEPT !.pc = "resp_update", !.updateError = error]]
         /\ log' = Answered(c, error)
    /\ ev' = Event(c, "serve update fila")
    /\ UNCHANGED <<form, fila, loading, fetchOp, submitOp, tblHistorico, clock>>

\* The continuation of handleCallNext after the first await: it issues the
\* insert into historico.
CallNextAfterUpdate(c) ==
    /\ callOp[c].pc = "resp_update"
    /\ IF InsertsHistorico(callOp[c].updateError)
       THEN /\ callOp' = [callOp EXCEPT ![c] =
                  [@ EXCEPT !.pc = "req_hist",
                            !.calls = Append(@, "insert historico"),
                            !.histReq = HistoricoPayload(callOp[c].next, callOp[c].now)]]
            /\ log' = [log EXCEPT ![c].inserts = Append(@, callOp[c].next.id)]
            /\ UNCHANGED <<fila, loading>>
       ELSE /\ fila' = [fila EXCEPT ![c] = Slice1(@)]
            /\ loading' = [loading EXCEPT ![c] = FALSE]
            /\ callOp' = [callOp EXCEPT ![c] = CallIdle]
            /\ UNCHANGED log
    /\ ev' = IF InsertsHistorico(callOp[c].updateError)
             THEN Event(c, "call next resumed")
             ELSE Outcome(c, "call next done", <<callOp[c].updateError>>)
    /\ UNCHANGED <<form, fetchOp, submitOp, tblFila, tblHistorico, clock>>

\* The store answers the insert into historico.
ServeInsertHistorico(c) ==
    /\ callOp[c].pc = "req_hist"
    /\ \E error \in {NoError, RemoteError} :
         /\ tblHistorico' = IF error = NoError
                            THEN Append(tblHistorico, callOp[c].histReq)
                            ELSE tblHistorico
         /\ callOp' = [callOp EXCEPT ![c] =
               [@ EXCEPT !.pc = "resp_hist", !.historicoError = error]]
         /\ log' = Answered(c, error)
    /\ ev' = Event(c, "serve insert historico")
    /\ UNCHANGED <<form, fila, loading, fetchOp, submitOp, tblFila, clock>>

\* The continuation of handleCallNext after the second await.
CallNextFinish(c) ==
    /\ callOp[c].pc = "resp_hist"
    /\ fila' = [fila EXCEPT ![c] =
                  FilaAfterCallNext(@, callOp[c].updateError, callOp[c].historicoError)]
    /\ loading' = [loading EXCEPT ![c] = FALSE]
    /\ callOp' = [callOp EXCEPT ![c] = CallIdle]
    /\ ev' = Outcome(c, "call next done",
                     <<callOp[c].updateError, callOp[c].historicoError>>)
    /\ UNCHANGED <<form, fetchOp, submitOp, tblFila, tblHistorico, clock, log>>

----------------------------------------------------------------------------
\* What earlier sessions left in the remote tables: up to InitRows vehicles
\* that arrived one after the other, some of them called since (each call
\* with its record in "historico").

EarlierDraft == [initialForm EXCEPT !["placa_cavalo"] = "ABC1D23"]

EarlierRow(i, n, called) ==
    LET row == NewRow(InsertPayload(EarlierDraft), i, i)
    IN  IF i \in called
        THEN UpdateRequest(row, n + 1).set @@ row
        ELSE row

EarlierTables ==
    {{EarlierRow(i, n, called) : i \in 1..n} :
        <<n, called>> \in {<<n, called>> \in (0..InitRows) \X SUBSET (1..InitRows) :
                            called \subseteq 1..n}}

EarlierHistorico(T) ==
    LET done == OrderByChegada(EqStatus(T, "Chamado"))
    IN  [i \in 1..Len(done) |->
            HistoricoPayload(NewRow(InsertPayload(EarlierDraft), done[i].id,
                                    done[i].chegada_at),
                             done[i].chamado_at)]

Init ==
    /\ form = [c \in Clients |-> initialForm]
    /\ fila = [c \in Clients |-> <<>>]
    /\ loading = [c \in Clients |-> FALSE]
    /\ fetchOp = [c \in Clients |-> FetchInit]
    /\ submitOp = [c \in Clients |-> SubmitIdle]
    /\ callOp = [c \in Clients |-> CallIdle]
    /\ tblFila \in EarlierTables
    /\ tblHistorico = EarlierHistorico(tblFila)
    /\ clock = Cardinality(tblFila) + 2
    /\ log = [c \in Clients |-> LogInit]
    /\ ev = Event("none", "init")

----------------------------------------------------------------------------
\* Everything tab c and the store serving it can do.
Step(c) ==
    \/ Mount(c)
    \/ ServeSelect(c)
    \/ FetchResume(c)
    \/ \E field \in TypedFields : \E value \in TypedValues : Change(c, field, value)
    \/ SubmitClick(c)
    \/ ServeInsertFila(c)
    \/ SubmitResume(c)
    \/ CallNextClick(c)
    \/ ServeUpdate(c)
    \/ CallNextAfterUpdate(c)
    \/ ServeInsertHistorico(c)
    \/ CallNextFinish(c)

Next == \E c \in Tabs : Step(c)

Spec == Init /\ [][Next]_vars

----------------------------------------------------------------------------
\* Every remote call is answered in the end, with rows or with an error, and
\* the continuation of an answered await runs (the event loop resumes it).
\* Nothing obliges a user to open a tab, type or press a button.
Resolves(c) ==
    /\ WF_vars(ServeSelect(c))
    /\ WF_vars(FetchResume(c))
    /\ WF_vars(ServeInsertFila(c))
    /\ WF_vars(SubmitResume(c))
    /\ WF_vars(ServeUpdate(c))
    /\ WF_vars(CallNextAfterUpdate(c))
    /\ WF_vars(ServeInsertHistorico(c))
    /\ WF_vars(CallNextFinish(c))

\* The tabs open on a new, empty table.
InitLive == Init /\ tblFila = {}

SpecLive == InitLive /\ [][Next]_vars /\ \A c \in Tabs : Resolves(c)

----------------------------------------------------------------------------
\* A store that may also answer without an error and without the rows: the
\* insert with an empty list (data = []), the select with no data at all
\* (data = null).  The handlers test for both: "!error && data", "data || []".

ServeInsertFilaNoRows(c) ==
    /\ submitOp[c].pc = "req"
    /\ submitOp' = [submitOp EXCEPT ![c] =
          [@ EXCEPT !.pc = "resp", !.resp = [data |-> <<>>, error |-> NoError]]]
    /\ ev' = Event(c, "serve insert fila")
    /\ UNCHANGED <<form, fila, loading, fetchOp, callOp, tblFila, tblHistorico,
                   clock, log>>

ServeSelectNoData(c) ==
    /\ fetchOp[c].pc = "req"
    /\ fetchOp' = [fetchOp EXCEPT ![c] =
          [@ EXCEPT !.pc = "resp", !.resp = [data |-> Null, error |-> NoError]]]
    /\ ev' = Event(c, "serve select")
    /\ UNCHANGED <<form, fila, loading, submitOp, callOp, tblFila, tblHistorico,
                   clock, log>>

NextAnswers ==
    \/ Next
    \/ \E c \in Tabs : ServeInsertFilaNoRows(c)
    \/ \E c \in Tabs : ServeSelectNoData(c)

SpecAnswers == Init /\ [][NextAnswers]_vars

----------------------------------------------------------------------------
\* Several tabs open on the same remote tables, each running the component on
\* its own state.  The vehicles of earlier sessions have all been called and
\* the table has room for two more, so that what the tabs see of each other
\* is what they insert and call themselves.

InitTabs ==
    /\ Init
    /\ Cardinality(tblFila) = MaxRows - 2
    /\ EqStatus(tblFila, "Na fila") = {}

NextTabs == \E c \in Clients : Step(c)

SpecTabs == InitTabs /\ [][NextTabs]_vars

----------------------------------------------------------------------------
\* Vocabulary of the properties.

\* An operation of tab c is in flight: started and not yet through its last
\* continuation.
FetchInFlight(c) == fetchOp[c].pc \in {"req", "resp"}
SubmitInFlight(c) == submitOp[c].pc # "idle"
CallNextInFlight(c) == callOp[c].pc # "idle"
InFlight(c) == FetchInFlight(c) \/ SubmitInFlight(c) \/ CallNextInFlight(c)

\* The steps with which an operation of tab c ends.
FetchEnds(c) == fetchOp[c].pc = "resp" /\ fetchOp'[c].pc = "done"
SubmitEnds(c) == submitOp[c].pc = "resp" /\ submitOp'[c].pc = "idle"
CallNextEnds(c) == callOp[c].pc # "idle" /\ callOp'[c].pc = "idle"

\* q lists exactly the rows of table T with status "Na fila", each once, in
\* ascending order of arrival.
IsQueueOf(q, T) ==
    /\ {q[i] : i \in 1..Len(q)} = {r \in T : r.status = "Na fila"}
    /\ Len(q) = Cardinality({r \in T : r.status = "Na fila"})
    /\ \A i, j \in 1..Len(q) : i < j => q[i].chegada_at <= q[j].chegada_at

BothWrites == <<"update fila", "insert historico">>

----------------------------------------------------------------------------
\* C1: when an advance on a non-empty queue ends, the local queue is the
\* queue the advance started from without its head element, whatever the two
\* remote writes were answered with.
C1_AdvanceDropsHead ==
    [][\A c \in Clients :
          CallNextEnds(c) =>
             /\ callOp[c].fila # <<>>
             /\ fila'[c] = Tail(callOp[c].fila)]_vars

\* An advance has ended with both remote writes failed, on a queue that held
\* at least two entries.
C1_Witness ==
    \E c \in Clients :
       /\ ev = Outcome(c, "call next done", <<RemoteError, RemoteError>>)
       /\ Len(fila[c]) >= 1

\* C2: the busy flag of a tab is true exactly when one of its operations
\* (load, submit, advance) is in flight.
C2_BusyIffInFlight ==
    \A c \in Clients : loading[c] <=> InFlight(c)

\* A submit has ended on an error and the tab is at rest, not busy.
C2_Witness ==
    \E c \in Clients :
       /\ ev = Outcome(c, "submit done", <<RemoteError>>)
       /\ ~loading[c]
       /\ ~InFlight(c)

\* C3: a submit or an advance triggered while the tab is busy changes
\* nothing and issues no remote call, and at most one of load, submit and
\* advance is in flight in a tab.
C3_BusyGuard ==
    /\ [](\A c \in Clients :
            Cardinality({k \in {"fetch", "submit", "call next"} :
                           \/ k = "fetch" /\ FetchInFlight(c)
                           \/ k = "submit" /\ SubmitInFlight(c)
                           \/ k = "call next" /\ CallNextInFlight(c)}) <= 1)
    /\ [][\A c \in Clients :
            (loading[c] /\ ev'.client = c /\ ev'.kind \in {"submit", "call next"})
               => UNCHANGED state]_vars

\* The submit button was pressed with a valid draft while another operation
\* of the tab was in flight, and no submit started.
C3_Witness ==
    \E c \in Clients :
       /\ ev = Event(c, "submit")
       /\ loading[c]
       /\ form[c]["placa_cavalo"] # ""
       /\ ~SubmitInFlight(c)

\* C4: a select answered without error carries exactly the rows of the remote
\* table that have status "Na fila" when it is served, in ascending order of
\* arrival, and the load that receives it makes it the local queue.
C4_LoadMirrorsRemote ==
    [][\A c \in Clients :
          /\ (fetchOp[c].pc = "req" /\ fetchOp'[c].pc = "resp"
                 /\ fetchOp'[c].resp.error = NoError)
                => IsQueueOf(fetchOp'[c].resp.data, tblFila)
          /\ (FetchEnds(c) /\ fetchOp[c].resp.error = NoError)
                => fila'[c] = fetchOp[c].resp.data]_vars

\* A load has ended without error with two or more waiting vehicles in the
\* local queue while the remote table also holds a called one.
C4_Witness ==
    \E c \in Clients :
       /\ ev = Outcome(c, "fetch done", <<NoError>>)
       /\ Len(fila[c]) >= 2
       /\ \E r \in tblFila : r.status = "Chamado"

\* C5: a submit whose insert is answered with the inserted row appends that
\* one row, with status "Na fila" and the submitted (non-empty) tractor
\* plate, at the end of the local queue, keeps the elements before it, and
\* resets every field of the draft to the empty string.
C5_SubmitAppendsAndResets ==
    [][\A c \in Clients :
          (SubmitEnds(c) /\ submitOp[c].resp.error = NoError
                         /\ submitOp[c].resp.data # Null
                         /\ submitOp[c].resp.data # <<>>)
             => /\ Len(fila'[c]) = Len(fila[c]) + 1
                /\ SubSeq(fila'[c], 1, Len(fila[c])) = fila[c]
                /\ fila'[c][Len(fila'[c])] = submitOp[c].resp.data[1]
                /\ fila'[c][Len(fila'[c])].status = "Na fila"
                /\ fila'[c][Len(fila'[c])].placa_cavalo # ""
                /\ \A f \in Fields :
                      /\ fila'[c][Len(fila'[c])][f] = submitOp[c].req[f]
                      /\ form'[c][f] = ""]_vars

\* A submit has ended without error on a queue that already held an entry,
\* and the draft is empty again.
C5_Witness ==
    \E c \in Clients :
       /\ ev = Outcome(c, "submit done", <<NoError>>)
       /\ Len(fila[c]) >= 2
       /\ fila[c][Len(fila[c])].status = "Na fila"
       /\ form[c] = initialForm

\* C6: a submit of a draft whose tractor plate is empty changes nothing: no
\* insert is issued and the local queue stays as it is.
C6_EmptyPlateRejected ==
    [][\A c \in Clients :
          (ev'.client = c /\ ev'.kind = "submit" /\ form[c]["placa_cavalo"] = "")
             => UNCHANGED state]_vars

\* The submit button was pressed in a tab at rest whose draft has an empty
\* tractor plate, and the tab is still at rest.
C6_Witness ==
    \E c \in Clients :
       /\ ev = Event(c, "submit")
       /\ form[c]["placa_cavalo"] = ""
       /\ ~loading[c]
       /\ ~InFlight(c)

\* C7: an advance ends only after it has issued the row update and then the
\* history insert, once each, whatever the update was answered with; it never
\* issues another sequence of writes.
C7_BothWritesOnce ==
    [][\A c \in Clients :
          /\ CallNextEnds(c) => callOp[c].calls = BothWrites
          /\ callOp'[c].calls \in {<<>>, <<"update fila">>, BothWrites}
          /\ (callOp[c].pc = "resp_update" /\ callOp'[c].pc # "resp_update")
                => callOp'[c].pc = "req_hist"]_vars

\* An advance has ended whose update failed and whose history insert
\* succeeded: the history holds a record of a vehicle still waiting remotely.
C7_Witness ==
    \E c \in Clients :
       /\ ev = Outcome(c, "call next done", <<RemoteError, NoError>>)
       /\ \E i \in 1..Len(tblHistorico) : \E r \in tblFila :
             /\ r.id = tblHistorico[i].veiculo_id
             /\ r.status = "Na fila"

\* C8: an advance triggered while the local queue is empty changes nothing:
\* no remote call, and the local queue, the draft and the busy flag stay.
C8_EmptyAdvanceNoOp ==
    [][\A c \in Clients :
          (ev'.client = c /\ ev'.kind = "call next" /\ fila[c] = <<>>)
             => UNCHANGED state]_vars

\* The call-next button was pressed in a tab at rest with an empty queue.
C8_Witness ==
    \E c \in Clients :
       /\ ev = Event(c, "call next")
       /\ fila[c] = <<>>
       /\ ~loading[c]
       /\ ~InFlight(c)

\* C9: while an advance is in flight, with A the head of the local queue: its
\* update targets A's identifier and sets status "Chamado" and the called
\* timestamp; its history insert carries A's identifier, action "Chamado", the
\* timestamp of the update, and as payload A as held locally, with status
\* "Na fila" and no called timestamp.
C9_AdvanceRequests ==
    \A c \in Clients :
       LET op == callOp[c] IN
       /\ op.pc # "idle" =>
             /\ fila[c] # <<>>
             /\ op.now # NULL
             /\ op.updReq = [id |-> fila[c][1].id,
                             set |-> [status |-> "Chamado", chamado_at |-> op.now]]
       /\ op.pc \in {"req_hist", "resp_hist"} =>
             /\ op.histReq.veiculo_id = fila[c][1].id
             /\ op.histReq.acao = "Chamado"
             /\ op.histReq.at = op.updReq.set.chamado_at
             /\ op.histReq.payload = fila[c][1]
             /\ op.histReq.payload.status = "Na fila"
             /\ op.histReq.payload.chamado_at = NULL

\* The history insert of an advance on a queue of two or more entries has
\* been stored, after its update was applied.
C9_Witness ==
    \E c \in Clients :
       /\ callOp[c].pc = "resp_hist"
       /\ callOp[c].updateError = NoError
       /\ callOp[c].historicoError = NoError
       /\ Len(fila[c]) >= 2
       /\ tblHistorico[Len(tblHistorico)] = callOp[c].histReq
       /\ \E r \in tblFila : r.id = fila[c][1].id /\ r.status = "Chamado"

\* C10: a load whose select is answered with an error leaves the local queue
\* exactly as it was before the load.
C10_LoadErrorKeepsQueue ==
    [][\A c \in Clients :
          (FetchEnds(c) /\ fetchOp[c].resp.error # NoError)
             => fila'[c] = fila[c]]_vars

\* A load has ended on an error while vehicles wait in the remote table, and
\* the local queue is what it was, empty.
C10_Witness ==
    \E c \in Clients :
       /\ ev = Outcome(c, "fetch done", <<RemoteError>>)
       /\ fila[c] = <<>>
       /\ \E r \in tblFila : r.status = "Na fila"

\* The arrival timestamp of the row with identifier id in the remote table.
ArrivalOf(id) == (CHOOSE r \in tblFila : r.id = id).chegada_at

\* The last element of a non-empty sequence.
Last(q) == q[Len(q)]

\* C11: a submit whose insert is answered with an error leaves the draft and
\* the local queue (and the remote tables) as they are; the busy flag, true
\* until then, returns to false.
C11_FailedSubmitKeepsDraft ==
    [][\A c \in Clients :
          (SubmitEnds(c) /\ submitOp[c].resp.error # NoError)
             => /\ form'[c] = form[c]
                /\ fila'[c] = fila[c]
                /\ loading[c] /\ ~loading'[c]
                /\ UNCHANGED <<tblFila, tblHistorico>>]_vars

\* A submit has ended on an error and the draft still holds the plate typed.
C11_Witness ==
    \E c \in Clients :
       /\ ev = Outcome(c, "submit done", <<RemoteError>>)
       /\ form[c]["placa_cavalo"] = "ABC1D23"
       /\ ~loading[c]

\* C12 as stated: an advance whose row update is answered with an error ends
\* with the local queue equal to the queue it started from.
C12_FailedUpdateIsNoOp ==
    [][\A c \in Clients :
          (CallNextEnds(c) /\ callOp[c].updateError # NoError)
             => fila'[c] = callOp[c].fila]_vars

\* C12 amended: an advance whose row update is answered with an error still
\* ends (the error is not raised, the busy flag returns to false) and still
\* removes the head: the local queue is the queue it started from without its
\* head element.
C12_FailedUpdateStillDropsHead ==
    [][\A c \in Clients :
          (CallNextEnds(c) /\ callOp[c].updateError # NoError)
             => /\ callOp[c].pc = "resp_hist"
                /\ fila'[c] = Tail(callOp[c].fila)
                /\ Len(fila'[c]) = Len(fila[c]) - 1
                /\ ~loading'[c]]_vars

\* An advance has ended whose update failed: the vehicle it sent still waits
\* in the remote table and is gone from the local queue.
C12_Witness ==
    \E c \in Clients :
       /\ ev.client = c /\ ev.kind = "call next done"
       /\ ev.info[1] = RemoteError
       /\ \E r \in tblFila :
             /\ r.status = "Na fila"
             /\ r.id = Last(log[c].updates)
             /\ \A i \in 1..Len(fila[c]) : fila[c][i].id # r.id

\* C14: when a tab whose load has ended has no operation in flight and none
\* of its remote calls was answered with an error, its local queue lists
\* exactly the rows of the remote table with status "Na fila", in ascending
\* order of arrival.
C14_CacheCoherent ==
    \A c \in Clients :
       (fetchOp[c].pc = "done" /\ ~InFlight(c) /\ ~log[c].failed)
          => IsQueueOf(fila[c], tblFila)

\* A tab at rest has advanced and then submitted, every call answered without
\* error, and vehicles wait in its queue.
C14_Witness ==
    \E c \in Clients :
       /\ ev = Outcome(c, "submit done", <<NoError>>)
       /\ ~log[c].failed
       /\ ~InFlight(c)
       /\ Len(log[c].updates) >= 1
       /\ Len(fila[c]) >= 2

\* C16: the updates a tab issues go in ascending order of arrival: a vehicle
\* whose update was issued earlier did not arrive later.
C16_FifoCalls ==
    \A c \in Clients :
       \A i, j \in 1..Len(log[c].updates) :
          i < j => ArrivalOf(log[c].updates[i]) <= ArrivalOf(log[c].updates[j])

\* A tab has issued the updates of three vehicles.
C16_Witness ==
    \E c \in Clients :
       /\ Len(log[c].updates) >= 3
       /\ callOp[c].pc = "req_update"

\* C18: while an advance is in flight the local queue is the one the advance
\* read its candidate from, with the candidate at its head; the update and
\* the history insert carry the candidate's identifier, and the element the
\* advance drops when it ends is that head.
C18_DroppedIsCandidate ==
    /\ [](\A c \in Clients :
            CallNextInFlight(c)
               => /\ fila[c] = callOp[c].fila
                  /\ fila[c] # <<>>
                  /\ fila[c][1] = callOp[c].next
                  /\ callOp[c].updReq.id = callOp[c].next.id
                  /\ Last(log[c].updates) = callOp[c].next.id)
    /\ [][\A c \in Clients :
            CallNextEnds(c)
               => /\ fila[c][1].id = callOp[c].next.id
                  /\ callOp[c].histReq.veiculo_id = callOp[c].next.id
                  /\ Last(log[c].inserts) = callOp[c].next.id
                  /\ fila'[c] = Tail(fila[c])
                  /\ \A i \in 1..Len(fila'[c]) :
                        fila'[c][i].id # callOp[c].next.id]_vars

\* An advance has ended and left other vehicles in the local queue, none of
\* them the one it sent.
C18_Witness ==
    \E c \in Clients :
       /\ ev.client = c /\ ev.kind = "call next done"
       /\ ev.info = <<NoError, NoError>>
       /\ fila[c] # <<>>
       /\ \A i \in 1..Len(fila[c]) : fila[c][i].id # Last(log[c].updates)

\* C19: every element of a local queue is a row of the remote table, with
\* the identifier the store gave it; no element is missing (undefined),
\* whatever the store answered to the submit that appended it.
C19_QueueHoldsStoreRows ==
    \A c \in Clients :
       \A i \in 1..Len(fila[c]) :
          /\ fila[c][i] # Undefined
          /\ \E r \in tblFila : r.id = fila[c][i].id

\* C17: when every remote call is answered, a tab that is busy or has an
\* operation in flight comes to rest: the operation ends and the busy flag
\* is false again, whether the calls succeeded or failed.
C17_BusyEnds ==
    \A c \in Clients :
       (loading[c] \/ InFlight(c)) ~> (~loading[c] /\ ~InFlight(c))

\* An advance has ended whose history insert failed, and the tab is at rest.
C17_Witness ==
    \E c \in Clients :
       /\ ev = Outcome(c, "call next done", <<NoError, RemoteError>>)
       /\ log[c].failed
       /\ ~loading[c]
       /\ ~InFlight(c)

\* The number of times id occurs in the sequence of identifiers ids.
Count(ids, id) == Cardinality({i \in 1..Len(ids) : ids[i] = id})

\* The identifiers of the rows the table has held so far.
RowIds == 1..MaxRows

\* C13: over the tabs sharing the remote store, no vehicle identifier is sent
\* a second advance update nor a second history record: each identifier
\* occurs at most once among the updates issued by all the tabs together, and
\* at most once among their history inserts.
C13_OneAdvancePerRow ==
    \A id \in RowIds :
       /\ \A c \in Clients :
             /\ Count(log[c].updates, id) <= 1
             /\ Count(log[c].inserts, id) <= 1
       /\ \A c, d \in Clients :
             c # d =>
                /\ ~(Count(log[c].updates, id) >= 1 /\ Count(log[d].updates, id) >= 1)
                /\ ~(Count(log[c].inserts, id) >= 1 /\ Count(log[d].inserts, id) >= 1)

\* C13, as the code has it: one tab never issues a second advance update nor
\* a second history record for the same vehicle identifier, and a row enters
\* the table with status "Na fila"; two tabs that both hold a row in their
\* local queues each issue the two writes for it.
C13_OneAdvancePerRowAndTab ==
    /\ \A c \in Clients : \A id \in RowIds :
          /\ Count(log[c].updates, id) <= 1
          /\ Count(log[c].inserts, id) <= 1
    /\ \A r \in tblFila :
          r.status = "Na fila" \/ \E c \in Clients : Count(log[c].updates, r.id) >= 1
                               \/ r \in UNION EarlierTables

\* Two tabs have each issued the advance update and the history record for
\* the same vehicle, and one tab has advanced over two vehicles.
C13_Witness ==
    \E c, d \in Clients : \E id \in RowIds :
       /\ c # d
       /\ Count(log[c].updates, id) = 1 /\ Count(log[d].updates, id) = 1
       /\ Count(log[c].inserts, id) = 1 /\ Count(log[d].inserts, id) = 1
       /\ Len(log[c].updates) = 2

\* C15: the local queue of every tab is in ascending order of arrival, with
\* other tabs inserting into the same table.
C15_QueueAscending ==
    \A c \in Clients : \A i, j \in 1..Len(fila[c]) :
       i < j => fila[c][i].chegada_at <= fila[c][j].chegada_at

\* A tab has just appended the entry of its own submit behind an entry it
\* holds, while the other tab, which holds that same entry, has not seen the
\* new one.
C15_Witness ==
    \E c, d \in Clients :
       /\ c # d
       /\ ev = Outcome(d, "submit done", <<NoError>>)
       /\ Len(fila[d]) = 2
       /\ fila[c] = <<fila[d][1]>>
       /\ Last(fila[d]) \in tblFila

====
